---- MODULE Spec2Model ----
(***************************************************************************)
(* SIMD abstraction layer of node-athlon (src/src/simd_abstraction.[ch]).  *)
(*                                                                         *)
(* The dispatch state is the pair of file-scope statics                    *)
(* current_simd_instruction_set / simd_funcs.  The lazy accessors          *)
(* get_active_simd_instruction_set and get_simd_functions test the family  *)
(* against SIMD_NONE and call init_simd_functions without any lock, fence  *)
(* or atomic, so concurrent first calls are a data race: the stores of     *)
(* init_simd_functions are plain stores to independent objects and may     *)
(* become visible to other threads in any order.                           *)
(***************************************************************************)
EXTENDS Integers, Naturals, Sequences, FiniteSets, TLC

(* ---------------- bounds ---------------- *)
NumThreads == 2
Threads == 1..NumThreads

(* ---------------- simd_abstraction.h: enum ---------------- *)
SIMD_NONE == 0
SIMD_SCALAR == 1
SIMD_SSE2 == 2
SIMD_3DNOW == 3
SIMD_ALTIVEC == 4

Families == {SIMD_NONE, SIMD_SCALAR, SIMD_SSE2, SIMD_3DNOW, SIMD_ALTIVEC}

(* simd_functions_t: the five slots *)
Slots == {"add_ps", "mul_ps", "sub_ps", "add_epi32", "shuffle_epi32"}
NULL == "NULL"

(* static simd_functions_t simd_funcs = {0}; *)
ZeroTable == [s \in Slots |-> NULL]

(* ---------------- build configuration ---------------- *)
(* platform   : which arm of the header's outer #if is taken               *)
(* def_*      : the compiler's predefined __SSE2__/__3dNOW__/__ALTIVEC__   *)
Platforms == {"x86", "ppc", "other"}

BuildConfigs ==
  { c \in [platform : Platforms,
           def_SSE2 : BOOLEAN, def_3dNOW : BOOLEAN, def_ALTIVEC : BOOLEAN] :
      /\ (c.def_SSE2 \/ c.def_3dNOW) => c.platform = "x86"
      /\ c.def_ALTIVEC => c.platform = "ppc" }

(* The capability flags x86_cpu_enable_sse2, x86_cpu_enable_3dnow and      *)
(* ppc_cpu_enable_altivec are run-time variables of the probe, not macros; *)
(* in an #if expression an identifier that is not a macro evaluates to 0.  *)
FlagInPreprocessor == 0

(* what the probe will detect on the executing CPU *)
Hardware ==
  [sse2 : BOOLEAN, d3now : BOOLEAN, altivec : BOOLEAN]

HardwareOf(c) ==
  { h \in Hardware :
      /\ (h.sse2 \/ h.d3now) => c.platform = "x86"
      /\ h.altivec => c.platform = "ppc" }

(* ---------------- simd_abstraction.h lines 13-38 ---------------- *)
USE_SSE2(c) == c.platform = "x86" /\ c.def_SSE2 /\ FlagInPreprocessor # 0

USE_3DNOW(c) ==
  c.platform = "x86" /\ ~(c.def_SSE2 /\ FlagInPreprocessor # 0)
                     /\ c.def_3dNOW /\ FlagInPreprocessor # 0

USE_ALTIVEC(c) ==
  c.platform = "ppc" /\ c.def_ALTIVEC /\ FlagInPreprocessor # 0

USE_SCALAR(c) == ~USE_SSE2(c) /\ ~USE_3DNOW(c) /\ ~USE_ALTIVEC(c)

(* ---------------- init_simd_functions lines 15-57 ---------------- *)
(* the stores of each preprocessor branch, as <<location, value>> pairs *)
Sse2Stores ==
  { <<"add_ps", "sse2_add_ps">>, <<"mul_ps", "sse2_mul_ps">>,
    <<"sub_ps", "sse2_sub_ps">>, <<"add_epi32", "sse2_add_epi32">>,
    <<"shuffle_epi32", "sse2_shuffle_epi32">>, <<"family", SIMD_SSE2>> }

D3nowStores ==
  { <<"add_ps", "d3now_add_ps">>, <<"mul_ps", "d3now_mul_ps">>,
    <<"sub_ps", "d3now_sub_ps">>, <<"add_epi32", "scalar_add_epi32">>,
    <<"shuffle_epi32", "scalar_shuffle_epi32">>, <<"family", SIMD_3DNOW>> }

AltivecStores ==
  { <<"add_ps", "altivec_add_ps">>, <<"mul_ps", "altivec_mul_ps">>,
    <<"sub_ps", "altivec_sub_ps">>, <<"add_epi32", "altivec_add_epi32">>,
    <<"shuffle_epi32", "altivec_shuffle_epi32">>, <<"family", SIMD_ALTIVEC>> }

(* mutation: a slot of the scalar branch filled from another branch *)
ScalarStores_WrongSlot ==
  { <<"add_ps", "scalar_add_ps">>, <<"mul_ps", "scalar_mul_ps">>,
    <<"sub_ps", "scalar_sub_ps">>, <<"add_epi32", "scalar_add_epi32">>,
    <<"shuffle_epi32", "sse2_shuffle_epi32">>, <<"family", SIMD_SCALAR>> }

ScalarStores ==
  { <<"add_ps", "scalar_add_ps">>, <<"mul_ps", "scalar_mul_ps">>,
    <<"sub_ps", "scalar_sub_ps">>, <<"add_epi32", "scalar_add_epi32">>,
    <<"shuffle_epi32", "scalar_shuffle_epi32">>, <<"family", SIMD_SCALAR>> }

InitStores(c) ==
  IF USE_SSE2(c) THEN (IF c.def_SSE2 THEN Sse2Stores ELSE {})
  ELSE IF USE_3DNOW(c) THEN (IF c.def_3dNOW THEN D3nowStores ELSE {})
  ELSE IF USE_ALTIVEC(c) THEN (IF c.def_ALTIVEC THEN AltivecStores ELSE {})
  ELSE ScalarStores

(* ---------------- state ---------------- *)
VARIABLES
  cfg,                          \* build configuration (fixed per process)
  hw,                           \* what the CPU really supports
  x86_cpu_enable_sse2,          \* the probe's flags
  x86_cpu_enable_3dnow,
  ppc_cpu_enable_altivec,
  current_simd_instruction_set, \* simd_abstraction.c:5
  simd_funcs,                   \* simd_abstraction.c:8
  pc,                           \* per thread: position in an accessor
  op,                           \* per thread: accessor being executed
  ret_family,                   \* per thread: last value returned by
                                \*   get_active_simd_instruction_set
  first_accessor,               \* the lazy accessor the process called first
  avail_res,                    \* last is_simd_available call and result
  init_runs,                    \* executions of init_simd_functions so far
  probe_calls,                  \* calls of cpu_check_features so far
  opcall                        \* last direct call of a variant body

dispatch == <<current_simd_instruction_set, simd_funcs>>
flags == <<x86_cpu_enable_sse2, x86_cpu_enable_3dnow, ppc_cpu_enable_altivec>>
vars == <<cfg, hw, flags, dispatch, pc, op, ret_family, first_accessor,
          avail_res, init_runs, probe_calls, opcall>>

(* "no call has returned yet" markers of the history variables *)
NoRet == SIMD_NONE - 1
NoAvail == [family |-> NoRet, result |-> NoRet]
NoCall == [fn |-> "none"]

(* ---------------- flags ---------------- *)
BoolToInt(b) == IF b THEN 1 ELSE 0

(* cpu_check_features(): one-time detection, after which the flags hold    *)
(* what the hardware supports                                               *)
cpu_check_features ==
  /\ x86_cpu_enable_sse2' = BoolToInt(hw.sse2)
  /\ x86_cpu_enable_3dnow' = BoolToInt(hw.d3now)
  /\ ppc_cpu_enable_altivec' = BoolToInt(hw.altivec)
  /\ probe_calls' = probe_calls + 1

(* mutation: the SIMD_SCALAR case missing, so Scalar falls to default *)
is_simd_available_NoScalarCase(instruction_set) ==
  CASE instruction_set = SIMD_SSE2 -> x86_cpu_enable_sse2
    [] instruction_set = SIMD_3DNOW -> x86_cpu_enable_3dnow
    [] instruction_set = SIMD_ALTIVEC -> ppc_cpu_enable_altivec
    [] OTHER -> 0

(* ---------------- is_simd_available lines 238-251 ---------------- *)
is_simd_available(instruction_set) ==
  CASE instruction_set = SIMD_SSE2 -> x86_cpu_enable_sse2
    [] instruction_set = SIMD_3DNOW -> x86_cpu_enable_3dnow
    [] instruction_set = SIMD_ALTIVEC -> ppc_cpu_enable_altivec
    [] instruction_set = SIMD_SCALAR -> 1
    [] OTHER -> 0

(* ---------------- initial state ---------------- *)
Init ==
  /\ cfg \in BuildConfigs
  /\ hw \in HardwareOf(cfg)
  /\ x86_cpu_enable_sse2 = 0
  /\ x86_cpu_enable_3dnow = 0
  /\ ppc_cpu_enable_altivec = 0
  /\ current_simd_instruction_set = SIMD_NONE
  /\ simd_funcs = ZeroTable
  /\ pc = [t \in Threads |-> "idle"]
  /\ op = [t \in Threads |-> "none"]
  /\ ret_family = [t \in Threads |-> NoRet]
  /\ first_accessor = "none"
  /\ avail_res = NoAvail
  /\ init_runs = 0
  /\ probe_calls = 0
  /\ opcall = NoCall

(* ---------------- accessors ---------------- *)
Accessors == {"get_active_simd_instruction_set", "get_simd_functions"}

(* mutation: the test of the lazy accessors inverted *)
NeedsInit_Inverted == current_simd_instruction_set # SIMD_NONE

(* mutation: the lazy accessors run the selector on every call *)
NeedsInit_Always == TRUE

(* lines 225 / 232: if (current_simd_instruction_set == SIMD_NONE) *)
NeedsInit == current_simd_instruction_set = SIMD_NONE

(* entry of an accessor and its test of the family *)
CallAccessor(t, o) ==
  /\ pc[t] = "idle"
  /\ op' = [op EXCEPT ![t] = o]
  /\ pc' = [pc EXCEPT ![t] = IF NeedsInit THEN "init" ELSE "ret"]
  /\ first_accessor' = IF first_accessor = "none" THEN o ELSE first_accessor
  /\ UNCHANGED <<cfg, hw, flags, dispatch, ret_family,
                 avail_res, init_runs, probe_calls, opcall>>

(* Value held by the location a store of init_simd_functions targets *)
Mem(loc) ==
  IF loc = "family" THEN current_simd_instruction_set ELSE simd_funcs[loc]

(* The stores of init_simd_functions a thread inside it has still to make  *)
(* visible.  Every thread executes the same preprocessor branch, so all    *)
(* threads store the same value to a given location; a store to a location *)
(* that already holds that value changes nothing and counts as performed.  *)
RemainingStores == { s \in InitStores(cfg) : Mem(s[1]) # s[2] }

(* init_simd_functions line 13: the probe call *)
InitProbe(t) ==
  /\ pc[t] = "init"
  /\ cpu_check_features
  /\ init_runs' = init_runs + 1
  /\ pc' = [pc EXCEPT ![t] = "store"]
  /\ UNCHANGED <<cfg, hw, dispatch, op, ret_family, first_accessor, avail_res,
                 opcall>>

(* lines 19-24 / 30-36 / 42-47 / 51-56: one store of the selected branch   *)
(* reaches memory.  The stores are unsynchronised plain stores to distinct *)
(* objects, so the order in which they become visible is not fixed.        *)
InitStore(t, s) ==
  /\ pc[t] = "store"
  /\ s \in RemainingStores
  /\ IF s[1] = "family"
       THEN /\ current_simd_instruction_set' = s[2]
            /\ UNCHANGED simd_funcs
       ELSE /\ simd_funcs' = [simd_funcs EXCEPT ![s[1]] = s[2]]
            /\ UNCHANGED current_simd_instruction_set
  /\ UNCHANGED <<cfg, hw, flags, pc, op, ret_family, first_accessor, avail_res,
                 init_runs, probe_calls, opcall>>

(* line 58: init_simd_functions returns once all its stores are done *)
InitReturn(t) ==
  /\ pc[t] = "store"
  /\ RemainingStores = {}
  /\ pc' = [pc EXCEPT ![t] = "ret"]
  /\ UNCHANGED <<cfg, hw, flags, dispatch, op, ret_family,
                 first_accessor, avail_res, init_runs, probe_calls, opcall>>

(* line 228: return current_simd_instruction_set; *)
ReturnFamily(t) ==
  /\ pc[t] = "ret"
  /\ op[t] = "get_active_simd_instruction_set"
  /\ ret_family' = [ret_family EXCEPT ![t] = current_simd_instruction_set]
  /\ pc' = [pc EXCEPT ![t] = "idle"]
  /\ op' = [op EXCEPT ![t] = "none"]
  /\ UNCHANGED <<cfg, hw, flags, dispatch, first_accessor, avail_res,
                 init_runs, probe_calls, opcall>>

(* line 235: return &simd_funcs; *)
ReturnTable(t) ==
  /\ pc[t] = "ret"
  /\ op[t] = "get_simd_functions"
  /\ pc' = [pc EXCEPT ![t] = "idle"]
  /\ op' = [op EXCEPT ![t] = "none"]
  /\ UNCHANGED <<cfg, hw, flags, dispatch, ret_family, first_accessor, avail_res,
                 init_runs, probe_calls, opcall>>

(* a call of is_simd_available *)
IsSimdAvailable(t, f) ==
  /\ pc[t] = "idle"
  /\ avail_res' = [family |-> f, result |-> is_simd_available(f)]
  /\ UNCHANGED <<cfg, hw, flags, dispatch, pc, op, ret_family,
                 first_accessor, init_runs, probe_calls, opcall>>

ThreadStep(t) ==
  \/ \E o \in Accessors : CallAccessor(t, o)
  \/ InitProbe(t)
  \/ \E s \in InitStores(cfg) : InitStore(t, s)
  \/ InitReturn(t)
  \/ ReturnFamily(t)
  \/ ReturnTable(t)
  \/ \E f \in Families : IsSimdAvailable(t, f)

Next == \E t \in Threads : ThreadStep(t)

Spec == Init /\ [][Next]_vars

(* a single caller thread *)
NextSeq == ThreadStep(1)

SpecSeq == Init /\ [][NextSeq]_vars

(* ======================================================================= *)
(* Variant implementations                                                 *)
(* A vector is a sequence of four lanes; an integer lane is the int32_t    *)
(* value of its 32-bit pattern, a number in INT32_MIN .. INT32_MAX.        *)
(* ======================================================================= *)
INT32_MAX == 2147483647
INT32_MIN == -INT32_MAX - 1
Lanes == 1..4

(* outcomes of a call: the vector written to the result buffer, or a trap *)
Done(v) == [trapped |-> FALSE, result |-> v]
Trapped == [trapped |-> TRUE, result |-> <<>>]

(* x + y is not representable in int32_t *)
SignedOverflow(x, y) ==
  \/ x >= 0 /\ y > INT32_MAX - x
  \/ x < 0 /\ y < INT32_MIN - x

(* the int32_t whose pattern is the 32-bit pattern of x + y mod 2^32 *)
WrapAdd32(x, y) ==
  IF x >= 0 /\ y > INT32_MAX - x THEN (x + INT32_MIN) + (y + INT32_MIN)
  ELSE IF x < 0 /\ y < INT32_MIN - x THEN (x - INT32_MIN) + (y - INT32_MIN)
  ELSE x + y

(* scalar_add_epi32, lines 203-210: ir[i] = ia[i] + ib[i] on int32_t.     *)
(* Signed overflow is undefined: a build either wraps or traps.  The set   *)
(* of possible outcomes is returned.                                        *)
scalar_add_epi32(a, b) ==
  LET wrapped == [i \in Lanes |-> WrapAdd32(a[i], b[i])]
  IN  IF \E i \in Lanes : SignedOverflow(a[i], b[i])
        THEN {Done(wrapped), Trapped}
        ELSE {Done(wrapped)}

(* The bodies take void* and state no alignment.  addr is the address of   *)
(* the buffers modulo 16; a float or int32_t array may start at any        *)
(* multiple of 4.                                                          *)
Misaligned16(addr) == addr % 16 # 0

(* lines 65-68, 72-75, 79-82, 86-89, 93-95: the buffers are dereferenced   *)
(* as __m128 / __m128i.  On an address that is not a multiple of 16 this   *)
(* is undefined: a build that emits aligned moves (movaps, movdqa) is      *)
(* killed by the fault, a build that emits unaligned moves completes.      *)
Sse2Access(addr, v) ==
  IF Misaligned16(addr) THEN {Trapped, Done(v)} ELSE {Done(v)}

(* what memory next to a buffer, or a lane a body leaves unwritten, holds *)
PriorLanes == {0, -1}

(* number of lanes by which the buffers are past a 16-byte boundary *)
LaneShift(addr) == (addr % 16) \div 4

(* lines 137-140, 144-147, 151-154, 158-161, 165-171: the buffers are      *)
(* dereferenced as vector float / vector signed int.  lvx and stvx ignore  *)
(* the low four bits of the address: a misaligned load returns the words   *)
(* before the buffer followed by its first lanes, *)
LvxLoad(buf, before, addr) ==
  [j \in Lanes |-> IF j - LaneShift(addr) >= 1 THEN buf[j - LaneShift(addr)]
                   ELSE before]

(* and a misaligned store puts the last lanes of the vector in the first   *)
(* lanes of the buffer and leaves the other lanes of the buffer as they    *)
(* were.                                                                   *)
StvxStore(vec, prior, addr) ==
  [i \in Lanes |-> IF i + LaneShift(addr) <= 4 THEN vec[i + LaneShift(addr)]
                   ELSE prior[i]]

(* a lane-wise Altivec operation whose result on the whole buffers is      *)
(* full: with all three buffers at addr the lanes loaded from before the   *)
(* buffers are stored before the result buffer, so the lanes written hold  *)
(* the lane-wise result.  The misaligned access is undefined; a build      *)
(* that emits the unaligned VSX loads and stores gives full, and a build   *)
(* that checks the alignment of the dereference traps.                     *)
AltivecLanewise(full, prior, addr) ==
  IF Misaligned16(addr)
    THEN {Trapped, Done(full),
          Done([i \in Lanes |-> IF i + LaneShift(addr) <= 4 THEN full[i]
                                ELSE prior[i]])}
    ELSE {Done(full)}

(* sse2_add_epi32, lines 85-90: _mm_add_epi32 (paddd), modular *)
sse2_add_epi32(a, b, addr) ==
  Sse2Access(addr, [i \in Lanes |-> WrapAdd32(a[i], b[i])])

(* altivec_add_epi32, lines 157-162: vec_add on vector signed int          *)
(* (vadduwm), modular                                                      *)
altivec_add_epi32(a, b, addr) ==
  UNION { AltivecLanewise([i \in Lanes |-> WrapAdd32(a[i], b[i])],
                          [i \in Lanes |-> u], addr) : u \in PriorLanes }

(* (mask >> k) & 0x3 for a non-negative int *)
MaskField(mask, k) == (mask \div (2^k)) % 4

(* scalar_shuffle_epi32, lines 212-221: four assignments in order; when    *)
(* result aliases a, a read sees the lanes already written.                *)
scalar_shuffle_epi32(a, mask, aliased) ==
  LET src(r) == IF aliased THEN r ELSE a
      r0 == [i \in Lanes |-> 0]
      r1 == [(IF aliased THEN a ELSE r0) EXCEPT ![1] = a[MaskField(mask, 0) + 1]]
      r2 == [r1 EXCEPT ![2] = src(r1)[MaskField(mask, 2) + 1]]
      r3 == [r2 EXCEPT ![3] = src(r2)[MaskField(mask, 4) + 1]]
      r4 == [r3 EXCEPT ![4] = src(r3)[MaskField(mask, 6) + 1]]
  IN  r4

(* sse2_shuffle_epi32, lines 92-96: _mm_shuffle_epi32 (pshufd) loads the   *)
(* whole source, then stores the whole result.  The intrinsic takes its    *)
(* selector as an 8-bit immediate and line 95 passes the parameter mask:   *)
(* compilers reject the body unless mask is a compile-time constant        *)
(* (immediate), which it is not for the function stored in the table, so   *)
(* the body as written has no outcome.                                     *)
sse2_shuffle_epi32(a, mask, aliased, addr, immediate) ==
  IF immediate
    THEN Sse2Access(addr,
                    [i \in Lanes |-> a[MaskField(mask % 256, 2 * (i - 1)) + 1]])
    ELSE {}

(* upper and lower half of the 32-bit pattern of an int32_t *)
Hi16(v) == IF v < 0 THEN ((v - INT32_MIN) \div 65536) + 32768 ELSE v \div 65536
Lo16(v) == IF v < 0 THEN (v - INT32_MIN) % 65536 ELSE v % 65536

(* the int32_t with the given halves *)
OfHalves(h, l) ==
  IF h >= 32768 THEN ((h - 32768) * 65536 + l) + INT32_MIN ELSE h * 65536 + l

(* The PowerPC branch of the header (line 25) compiles for big-endian and *)
(* for little-endian PowerPC; the byte order is a property of the build.  *)
ByteOrders == BOOLEAN

(* byte k of the 32-bit pattern of an int32_t, most significant first *)
ByteOfLane(v, k) ==
  CASE k = 0 -> Hi16(v) \div 256
    [] k = 1 -> Hi16(v) % 256
    [] k = 2 -> Lo16(v) \div 256
    [] OTHER -> Lo16(v) % 256

(* place in memory, within its lane, of the k-th most significant byte *)
PlaceInLane(k, big_endian) == IF big_endian THEN k ELSE 3 - k

(* the sixteen bytes of a vector in memory order, and back *)
BytesOf(a, big_endian) ==
  [j \in 0..15 |->
     ByteOfLane(a[(j \div 4) + 1], PlaceInLane(j % 4, big_endian))]

VecOfBytes(bs, big_endian) ==
  LET byte(i, k) == bs[4 * (i - 1) + PlaceInLane(k, big_endian)]
  IN  [i \in Lanes |-> OfHalves(byte(i, 0) * 256 + byte(i, 1),
                                byte(i, 2) * 256 + byte(i, 3))]

(* vec_lvsl(0, p): the permute control sh, sh+1, ..., sh+15 where sh is    *)
(* the low four bits of the address p                                      *)
vec_lvsl(addr) == [j \in 0..15 |-> (addr % 16) + j]

(* vec_perm(x, y, c): byte j of the result is byte (c[j] mod 32) of the    *)
(* 32-byte concatenation of x and y, bytes numbered in memory order on     *)
(* either byte order                                                       *)
vec_perm(x, y, c) ==
  [j \in 0..15 |-> LET k == c[j] % 32
                   IN  IF k < 16 THEN x[k] ELSE y[k - 16]]

(* altivec_shuffle_epi32, lines 164-172: the mask is used as an address    *)
(* for vec_lvsl and the result is vec_perm of the source with itself      *)
altivec_shuffle_epi32(a, mask, aliased, addr, big_endian) ==
  LET perm_vec == vec_lvsl(mask)
      permuted(va) ==
        VecOfBytes(vec_perm(BytesOf(va, big_endian), BytesOf(va, big_endian),
                            perm_vec),
                   big_endian)
  IN  IF Misaligned16(addr)
        THEN {Trapped, Done(permuted(a))} \cup
             { Done(StvxStore(permuted(LvxLoad(a, w, addr)),
                              IF aliased THEN a ELSE [i \in Lanes |-> u],
                              addr)) : w \in PriorLanes, u \in PriorLanes }
        ELSE {Done(permuted(a))}

(* ----------------------------------------------------------------------- *)
(* Float lanes.  A float lane is also held as the int32_t value of its      *)
(* 32-bit pattern, because the bodies receive void* and reinterpret the     *)
(* same bytes.  The floats used are the integers of magnitude below 2^24    *)
(* and the two zeros, on which IEEE-754 single precision is exact.          *)
(* ----------------------------------------------------------------------- *)
Pow2(e) == 2 ^ e

Log2Floor(n) == CHOOSE e \in 0..23 : Pow2(e) <= n /\ n < 2 * Pow2(e)

(* pattern of the float (-1)^neg * mag: sign, biased exponent, fraction *)
FloatBits(neg, mag) ==
  LET e == Log2Floor(mag)
      bits == IF mag = 0 THEN 0
              ELSE (127 + e) * Pow2(23) + (mag - Pow2(e)) * Pow2(23 - e)
  IN  IF neg THEN bits + INT32_MIN ELSE bits

(* the float a pattern stands for *)
FloatOf(p) ==
  LET bits == IF p < 0 THEN p - INT32_MIN ELSE p
      e == (bits \div Pow2(23)) - 127
      frac == bits % Pow2(23)
  IN  [neg |-> p < 0,
       mag |-> IF bits = 0 THEN 0 ELSE Pow2(e) + frac \div Pow2(23 - e)]

SignedValue(x) == IF x.neg THEN -x.mag ELSE x.mag

(* IEEE-754 x + y, round to nearest: an exact zero sum is +0 unless both   *)
(* operands are -0                                                         *)
FloatAdd(p, q) ==
  LET x == FloatOf(p)
      y == FloatOf(q)
      sum == SignedValue(x) + SignedValue(y)
  IN  IF x.mag = 0 /\ y.mag = 0 THEN FloatBits(x.neg /\ y.neg, 0)
      ELSE IF sum = 0 THEN FloatBits(FALSE, 0)
      ELSE IF sum < 0 THEN FloatBits(TRUE, -sum)
      ELSE FloatBits(FALSE, sum)

(* the pattern of -x *)
FloatNeg(p) == LET x == FloatOf(p) IN FloatBits(~x.neg, x.mag)

(* IEEE-754 x - y *)
FloatSub(p, q) == FloatAdd(p, FloatNeg(q))

(* IEEE-754 x * y: the sign is the exclusive or of the signs *)
FloatMul(p, q) ==
  LET x == FloatOf(p)
      y == FloatOf(q)
  IN  FloatBits(x.neg # y.neg, x.mag * y.mag)

(* scalar_add_ps / scalar_mul_ps / scalar_sub_ps, lines 176-201 *)
scalar_add_ps(a, b, r0) == { Done([i \in Lanes |-> FloatAdd(a[i], b[i])]) }
scalar_mul_ps(a, b, r0) == { Done([i \in Lanes |-> FloatMul(a[i], b[i])]) }
scalar_sub_ps(a, b, r0) == { Done([i \in Lanes |-> FloatSub(a[i], b[i])]) }

(* sse2_add_ps / sse2_mul_ps / sse2_sub_ps, lines 64-83: addps, mulps,     *)
(* subps on all four lanes                                                 *)
sse2_add_ps(a, b, r0, addr) ==
  Sse2Access(addr, [i \in Lanes |-> FloatAdd(a[i], b[i])])
sse2_mul_ps(a, b, r0, addr) ==
  Sse2Access(addr, [i \in Lanes |-> FloatMul(a[i], b[i])])
sse2_sub_ps(a, b, r0, addr) ==
  Sse2Access(addr, [i \in Lanes |-> FloatSub(a[i], b[i])])

(* lines 104-109, 115-120, 124-128: the buffers are dereferenced as        *)
(* __m64, whose alignment is 8.  On an address that is not a multiple of   *)
(* 8 this is undefined: the 8-byte moves (movq) have no alignment          *)
(* requirement, so an ordinary build completes, and a build that checks    *)
(* the alignment of the dereference traps.                                 *)
Misaligned8(addr) == addr % 8 # 0

M64Access(addr, v) ==
  IF Misaligned8(addr) THEN {Trapped, Done(v)} ELSE {Done(v)}

(* the int32_t whose pattern is the 32-bit pattern of x - y mod 2^32 *)
WrapSub32(x, y) ==
  IF y = INT32_MIN
    THEN (IF x < 0 THEN x - INT32_MIN ELSE x + INT32_MIN)
    ELSE WrapAdd32(x, -y)

(* d3now_add_ps, lines 103-112: the buffers are read and written as __m64  *)
(* (the first two lanes) and combined with _mm_add_pi32, the packed 32-bit *)
(* integer add; lanes 3 and 4 of the result buffer keep what they held.    *)
d3now_add_ps(a, b, r0, addr) ==
  M64Access(addr,
            <<WrapAdd32(a[1], b[1]), WrapAdd32(a[2], b[2]), r0[3], r0[4]>>)

(* d3now_sub_ps, lines 123-129: likewise with _mm_sub_pi32 *)
d3now_sub_ps(a, b, r0, addr) ==
  M64Access(addr,
            <<WrapSub32(a[1], b[1]), WrapSub32(a[2], b[2]), r0[3], r0[4]>>)

(* d3now_mul_ps, lines 114-121: line 120 calls _mm_mul_pi32, which none   *)
(* of the headers the file includes declares and no library defines, and  *)
(* assigns its value to an __m64.  Compilers reject the body, so no build *)
(* holds a callable d3now_mul_ps: the body as written has no outcome.     *)
d3now_mul_ps(a, b, r0, addr) == {}

(* altivec_add_ps / altivec_sub_ps, lines 136-141 and 150-155: vec_add and *)
(* vec_sub on vector float                                                 *)
altivec_add_ps(a, b, r0, addr) ==
  AltivecLanewise([i \in Lanes |-> FloatAdd(a[i], b[i])], r0, addr)
altivec_sub_ps(a, b, r0, addr) ==
  AltivecLanewise([i \in Lanes |-> FloatSub(a[i], b[i])], r0, addr)

(* altivec_mul_ps, lines 143-148: vec_madd(a, b, vec_splat_u32(0)), the    *)
(* fused a * b + c with c the all-zero-bits vector, that is +0.0           *)
altivec_mul_ps(a, b, r0, addr) ==
  AltivecLanewise([i \in Lanes |->
                     LET x == FloatOf(a[i])
                         y == FloatOf(b[i])
                     IN  IF x.mag * y.mag = 0 THEN FloatBits(FALSE, 0)
                         ELSE FloatBits(x.neg # y.neg, x.mag * y.mag)],
                  r0, addr)

(* the family whose branch of init_simd_functions stores the function *)
ConcreteFamilies == {SIMD_SCALAR, SIMD_SSE2, SIMD_3DNOW, SIMD_ALTIVEC}

FamilyStores(f) ==
  CASE f = SIMD_SSE2 -> Sse2Stores
    [] f = SIMD_3DNOW -> D3nowStores
    [] f = SIMD_ALTIVEC -> AltivecStores
    [] OTHER -> ScalarStores

(* the function a family's branch puts in a slot *)
SlotOf(f, slot) == CHOOSE fn \in {s[2] : s \in {x \in FamilyStores(f) : x[1] = slot}} : TRUE

(* the body is compiled: lines 61, 100, 133 (#ifdef), scalar bodies always *)
Compiled(c, f) ==
  CASE f = SIMD_SSE2 -> c.def_SSE2
    [] f = SIMD_3DNOW -> c.def_3dNOW
    [] f = SIMD_ALTIVEC -> c.def_ALTIVEC
    [] OTHER -> TRUE

(* call through a function pointer of the table *)
ApplyAddEpi32(fn, a, b, addr) ==
  CASE fn = "sse2_add_epi32" -> sse2_add_epi32(a, b, addr)
    [] fn = "altivec_add_epi32" -> altivec_add_epi32(a, b, addr)
    [] OTHER -> scalar_add_epi32(a, b)

(* the mask of a call through the table is a run-time argument *)
ApplyShuffleEpi32(fn, a, mask, aliased, addr) ==
  CASE fn = "sse2_shuffle_epi32" ->
         sse2_shuffle_epi32(a, mask, aliased, addr, FALSE)
    [] fn = "altivec_shuffle_epi32" ->
         UNION { altivec_shuffle_epi32(a, mask, aliased, addr, be) :
                   be \in ByteOrders }
    [] OTHER -> { Done(scalar_shuffle_epi32(a, mask, aliased)) }

ApplyFloatOp(fn, a, b, r0, addr) ==
  CASE fn = "scalar_add_ps" -> scalar_add_ps(a, b, r0)
    [] fn = "scalar_mul_ps" -> scalar_mul_ps(a, b, r0)
    [] fn = "scalar_sub_ps" -> scalar_sub_ps(a, b, r0)
    [] fn = "sse2_add_ps" -> sse2_add_ps(a, b, r0, addr)
    [] fn = "sse2_mul_ps" -> sse2_mul_ps(a, b, r0, addr)
    [] fn = "sse2_sub_ps" -> sse2_sub_ps(a, b, r0, addr)
    [] fn = "d3now_add_ps" -> d3now_add_ps(a, b, r0, addr)
    [] fn = "d3now_mul_ps" -> d3now_mul_ps(a, b, r0, addr)
    [] fn = "d3now_sub_ps" -> d3now_sub_ps(a, b, r0, addr)
    [] fn = "altivec_add_ps" -> altivec_add_ps(a, b, r0, addr)
    [] fn = "altivec_mul_ps" -> altivec_mul_ps(a, b, r0, addr)
    [] OTHER -> altivec_sub_ps(a, b, r0, addr)

(* inputs *)
FloatSlots == {"add_ps", "mul_ps", "sub_ps"}
FloatVec(v) == [i \in Lanes |-> FloatBits(v[i] < 0, IF v[i] < 0 THEN -v[i] ELSE v[i])]
NegZero == FloatBits(TRUE, 0)
FloatVecs == { FloatVec(<<1, 2, 3, 4>>), FloatVec(<<5, 6, 7, 8>>),
               FloatVec(<<-1, 0, 2, -3>>),
               <<NegZero, FloatBits(FALSE, 0), NegZero, FloatBits(TRUE, 2)>> }
ResultInits == { FloatVec(<<0, 0, 0, 0>>), FloatVec(<<9, 9, 9, 9>>) }
AddLanes == {0, 1, -1, INT32_MAX, INT32_MIN}
AddVecs == { <<x, y, 0, 0>> : x \in AddLanes, y \in AddLanes }
             \cup { <<0, 0, x, y>> : x \in AddLanes, y \in AddLanes }
ShuffleVecs == { <<10, 20, 30, 40>>,
                 <<16909060, 84281096, -2023406815, -1 >> }
Masks == 0..255
(* addresses of the buffers modulo 16: a 16-byte aligned block, and the    *)
(* second and third element of a float or int32_t array in such a block    *)
BufferAddrs == {0, 4, 8}

(* family f's add_epi32 slot is called on a, b *)
CallAddEpi32(f, a, b, addr) ==
  /\ opcall = NoCall
  /\ Compiled(cfg, f)
  /\ \E r \in ApplyAddEpi32(SlotOf(f, "add_epi32"), a, b, addr) :
       opcall' = [fn |-> "add_epi32", family |-> f, a |-> a, b |-> b,
                  addr |-> addr, out |-> r]
  /\ UNCHANGED <<cfg, hw, flags, dispatch, pc, op, ret_family,
                 first_accessor, avail_res, init_runs, probe_calls>>

(* family f's shuffle_epi32 slot is called on a, mask *)
CallShuffleEpi32(f, a, mask, aliased, addr) ==
  /\ opcall = NoCall
  /\ Compiled(cfg, f)
  /\ \E r \in ApplyShuffleEpi32(SlotOf(f, "shuffle_epi32"), a, mask, aliased,
                                 addr) :
       opcall' = [fn |-> "shuffle_epi32", family |-> f, a |-> a,
                  mask |-> mask, aliased |-> aliased, addr |-> addr,
                  out |-> r]
  /\ UNCHANGED <<cfg, hw, flags, dispatch, pc, op, ret_family,
                 first_accessor, avail_res, init_runs, probe_calls>>

(* family f's add_ps, mul_ps or sub_ps slot is called on a, b with a       *)
(* result buffer that holds r0                                             *)
CallFloatOp(f, slot, a, b, r0, addr) ==
  /\ opcall = NoCall
  /\ Compiled(cfg, f)
  /\ \E r \in ApplyFloatOp(SlotOf(f, slot), a, b, r0, addr) :
       opcall' = [fn |-> slot, family |-> f, a |-> a, b |-> b, r0 |-> r0,
                  addr |-> addr, out |-> r]
  /\ UNCHANGED <<cfg, hw, flags, dispatch, pc, op, ret_family,
                 first_accessor, avail_res, init_runs, probe_calls>>

NextOps ==
  \E f \in {g \in ConcreteFamilies : opcall = NoCall /\ Compiled(cfg, g)} :
    \/ \E slot \in FloatSlots, a \in FloatVecs, b \in FloatVecs,
          r0 \in ResultInits, addr \in BufferAddrs :
         CallFloatOp(f, slot, a, b, r0, addr)
    \/ \E a \in AddVecs, b \in AddVecs, addr \in BufferAddrs :
         CallAddEpi32(f, a, b, addr)
    \/ \E a \in ShuffleVecs, m \in Masks, al \in BOOLEAN,
          addr \in BufferAddrs : CallShuffleEpi32(f, a, m, al, addr)

(* the variant bodies depend on the build only through which of them are   *)
(* compiled; the probe plays no part                                       *)
InitOps ==
  /\ Init
  /\ hw = [sse2 |-> FALSE, d3now |-> FALSE, altivec |-> FALSE]

SpecOps == InitOps /\ [][NextOps]_vars

(* ======================================================================= *)
(* Properties                                                              *)
(* ======================================================================= *)

GASI == "get_active_simd_instruction_set"
GSF == "get_simd_functions"

(* C1: every value returned by get_active_simd_instruction_set is a        *)
(* concrete family, never SIMD_NONE, in every interleaving of the lazy     *)
(* accessors, the first call of the process included.                      *)
C1_NeverUninitialized ==
  /\ \A t \in Threads :
       ret_family[t] # NoRet => ret_family[t] \in ConcreteFamilies
  /\ \A t \in Threads :
       (pc[t] = "ret" /\ op[t] = GASI) =>
          current_simd_instruction_set \in ConcreteFamilies

(* the first call of the process was get_active_simd_instruction_set, it   *)
(* ran the initialisation and has returned a family                        *)
C1_Witness ==
  /\ first_accessor = GASI
  /\ init_runs >= 1
  /\ \E t \in Threads : ret_family[t] \in ConcreteFamilies

(* C2: under concurrent first calls, every caller of get_simd_functions    *)
(* is returned a table whose five slots are non-null at the moment of      *)
(* return, and all callers observe one family.                             *)
C2_FullTableOneFamily ==
  /\ \A t \in Threads :
       (pc[t] = "ret" /\ op[t] = GSF) =>
          \A s \in Slots : simd_funcs[s] # NULL
  /\ \A t, u \in Threads :
       (ret_family[t] # NoRet /\ ret_family[u] # NoRet) =>
          ret_family[t] = ret_family[u]

(* C3: the body of init_simd_functions is executed at most once in total   *)
(* across all threads.                                                     *)
C3_InitAtMostOnce == init_runs <= 1

(* C4: is_simd_available(get_active_simd_instruction_set()) is true: the   *)
(* published family, and every family an accessor has returned, is one     *)
(* is_simd_available reports usable, for every build and every flag        *)
(* setting.                                                                *)
C4_ActiveIsAvailable ==
  /\ current_simd_instruction_set # SIMD_NONE =>
       is_simd_available(current_simd_instruction_set) # 0
  /\ \A t \in Threads :
       ret_family[t] # NoRet => is_simd_available(ret_family[t]) # 0
  /\ \A t \in Threads :
       (ret_family[t] # NoRet /\ avail_res.family = ret_family[t]) =>
          avail_res.result # 0

(* is_simd_available was called on the family get_active returned *)
C4_Witness ==
  /\ ret_family[1] \in ConcreteFamilies
  /\ avail_res.family = ret_family[1]
  /\ avail_res.result # 0
  /\ probe_calls = 1

(* the most capable family that is both compiled in and confirmed by its   *)
(* run-time flag, in the order SSE2 > 3DNow > Altivec > Scalar             *)
BestConfirmedFamily ==
  IF cfg.def_SSE2 /\ x86_cpu_enable_sse2 # 0 THEN SIMD_SSE2
  ELSE IF cfg.def_3dNOW /\ x86_cpu_enable_3dnow # 0 THEN SIMD_3DNOW
  ELSE IF cfg.def_ALTIVEC /\ ppc_cpu_enable_altivec # 0 THEN SIMD_ALTIVEC
  ELSE SIMD_SCALAR

(* C5: the selector activates the most capable family that is compiled in  *)
(* and whose run-time flag reports support, Scalar when there is none.     *)
C5_SelectsBestConfirmed ==
  \A t \in Threads :
    ret_family[t] # NoRet => ret_family[t] = BestConfirmedFamily

(* the implementations that belong to a family *)
ImplsOf(f) ==
  CASE f = SIMD_SSE2 ->
         [add_ps |-> "sse2_add_ps", mul_ps |-> "sse2_mul_ps",
          sub_ps |-> "sse2_sub_ps", add_epi32 |-> "sse2_add_epi32",
          shuffle_epi32 |-> "sse2_shuffle_epi32"]
    [] f = SIMD_3DNOW ->
         [add_ps |-> "d3now_add_ps", mul_ps |-> "d3now_mul_ps",
          sub_ps |-> "d3now_sub_ps", add_epi32 |-> "scalar_add_epi32",
          shuffle_epi32 |-> "scalar_shuffle_epi32"]
    [] f = SIMD_ALTIVEC ->
         [add_ps |-> "altivec_add_ps", mul_ps |-> "altivec_mul_ps",
          sub_ps |-> "altivec_sub_ps", add_epi32 |-> "altivec_add_epi32",
          shuffle_epi32 |-> "altivec_shuffle_epi32"]
    [] f = SIMD_SCALAR ->
         [add_ps |-> "scalar_add_ps", mul_ps |-> "scalar_mul_ps",
          sub_ps |-> "scalar_sub_ps", add_epi32 |-> "scalar_add_epi32",
          shuffle_epi32 |-> "scalar_shuffle_epi32"]
    [] OTHER -> ZeroTable

(* C6: successive calls of get_active_simd_instruction_set by one caller   *)
(* return the same family, and whichever lazy accessor came first, the     *)
(* table behind get_simd_functions holds exactly the implementations of    *)
(* the family get_active_simd_instruction_set returned.                    *)
C6_IdempotentConsistent ==
  /\ [](ret_family[1] # NoRet => simd_funcs = ImplsOf(ret_family[1]))
  /\ [][ret_family[1] # NoRet => ret_family'[1] = ret_family[1]]_vars

(* get_simd_functions was the first accessor, and a repeated call of       *)
(* get_active_simd_instruction_set is about to return                      *)
C6_Witness ==
  /\ first_accessor = GSF
  /\ ret_family[1] \in ConcreteFamilies
  /\ pc[1] = "ret" /\ op[1] = GASI

AcceleratedFamilies == {SIMD_SSE2, SIMD_3DNOW, SIMD_ALTIVEC}

FlagOf(f) ==
  CASE f = SIMD_SSE2 -> x86_cpu_enable_sse2
    [] f = SIMD_3DNOW -> x86_cpu_enable_3dnow
    [] OTHER -> ppc_cpu_enable_altivec

(* C7: is_simd_available is true for SIMD_SCALAR, false for SIMD_NONE, and *)
(* true for an accelerated family only if the family is compiled in and    *)
(* its flag is set.                                                        *)
C7_AvailableContract ==
  /\ avail_res.family = SIMD_SCALAR => avail_res.result # 0
  /\ avail_res.family = SIMD_NONE => avail_res.result = 0
  /\ (avail_res.family \in AcceleratedFamilies /\ avail_res.result # 0) =>
       (Compiled(cfg, avail_res.family) /\ FlagOf(avail_res.family) # 0)

(* C8: a call of is_simd_available starts no initialisation, calls no      *)
(* probe and leaves the family and the table alone, and for a given family *)
(* its result is the same before and after the first lazy accessor call.   *)
C8_PureQuery ==
  [][ /\ avail_res' # avail_res =>
           UNCHANGED <<dispatch, flags, init_runs, probe_calls>>
      /\ (avail_res # NoAvail /\ avail_res'.family = avail_res.family) =>
           avail_res'.result = avail_res.result ]_vars

(* C9: every family's shuffle_epi32 slot, called with distinct buffers,    *)
(* yields r[i] = a[(mask >> (2*i)) & 3] for every 8-bit mask.              *)
C9_ShuffleContract ==
  (opcall.fn = "shuffle_epi32" /\ ~opcall.aliased) =>
     /\ ~opcall.out.trapped
     /\ opcall.out.result =
          [i \in Lanes |-> opcall.a[((opcall.mask \div (4 ^ (i - 1))) % 4) + 1]]

(* C10: every family's add_epi32 slot yields r[i] = a[i] + b[i] mod 2^32   *)
(* for all lane patterns, wrapping around, without trap or error.          *)
C10_AddWraps ==
  opcall.fn = "add_epi32" =>
     /\ ~opcall.out.trapped
     /\ opcall.out.result =
          [i \in Lanes |-> WrapAdd32(opcall.a[i], opcall.b[i])]

(* the Scalar reference body of a float slot *)
ScalarReference(slot, a, b, r0) ==
  CASE slot = "add_ps" -> scalar_add_ps(a, b, r0)
    [] slot = "mul_ps" -> scalar_mul_ps(a, b, r0)
    [] OTHER -> scalar_sub_ps(a, b, r0)

(* C11: for every family, the add_ps, mul_ps and sub_ps body writes all    *)
(* four lanes with r[i] = a[i] op b[i] in single precision, bit-identical  *)
(* to the Scalar reference body on the same inputs.                        *)
C11_FloatOpsMatchScalar ==
  opcall.fn \in FloatSlots =>
    opcall.out \in ScalarReference(opcall.fn, opcall.a, opcall.b, opcall.r0)

(* the first lazy accessor call of the single caller has returned *)
FirstCallDone == first_accessor # "none" /\ pc[1] = "idle"

(* C12: with a single caller, the selector body runs exactly once, on the  *)
(* first call of a lazy accessor; the probe is invoked at most once and    *)
(* before the family is written; every later lazy accessor call finds the  *)
(* state populated, skips the selector, and neither writes the family or   *)
(* the table nor calls the probe.                                          *)
C12_InitOnceSequential ==
  /\ [](init_runs <= 1 /\ probe_calls <= 1)
  /\ [](current_simd_instruction_set # SIMD_NONE => probe_calls = 1)
  /\ [](FirstCallDone =>
          /\ init_runs = 1
          /\ probe_calls = 1
          /\ current_simd_instruction_set # SIMD_NONE
          /\ RemainingStores = {})
  /\ [][FirstCallDone =>
          /\ pc'[1] # "init"
          /\ UNCHANGED <<dispatch, init_runs, probe_calls>>]_vars

(* a lazy accessor call made after the first one is about to return *)
C12_Witness ==
  /\ init_runs = 1
  /\ probe_calls = 1
  /\ ret_family[1] # NoRet
  /\ pc[1] = "ret"

(* C13: in every reachable state, inside init_simd_functions and under any *)
(* interleaving included, a published family other than SIMD_NONE means    *)
(* that all five slots are non-null and hold exactly the implementations   *)
(* fixed for that family.                                                  *)
C13_PublishedFamilyHasItsTable ==
  current_simd_instruction_set # SIMD_NONE =>
    /\ \A s \in Slots : simd_funcs[s] # NULL
    /\ simd_funcs = ImplsOf(current_simd_instruction_set)

(* C14: once the family is published (other than SIMD_NONE), neither the   *)
(* family nor any of the five slots changes in any later step, whatever    *)
(* the interleaving, a second thread still inside init_simd_functions      *)
(* included.                                                               *)
C14_PublishedStateFrozen ==
  [][current_simd_instruction_set # SIMD_NONE =>
       /\ current_simd_instruction_set' = current_simd_instruction_set
       /\ simd_funcs' = simd_funcs]_vars

(* the families whose shuffle_epi32 slot holds the scalar or SSE2 body *)
ScalarOrSse2Shuffle ==
  { f \in ConcreteFamilies :
      SlotOf(f, "shuffle_epi32") \in
        {"scalar_shuffle_epi32", "sse2_shuffle_epi32"} }

(* C15: with the result buffer aliasing the input (result == a), the       *)
(* scalar and SSE2 shuffle bodies still give r[i] = a_old[(mask >> 2i) & 3] *)
(* for every 8-bit mask, the same result as with distinct buffers.         *)
C15_ShuffleInPlace ==
  (/\ opcall.fn = "shuffle_epi32"
   /\ opcall.aliased
   /\ opcall.family \in ScalarOrSse2Shuffle) =>
     opcall.out.result =
       [i \in Lanes |-> opcall.a[MaskField(opcall.mask, 2 * (i - 1)) + 1]]

====
